---- MODULE Spec2Model ----
(***************************************************************************)
(* Model of contracts/deploy.py: the __main__ block, deploy_contract and   *)
(* test_contract.  Every awaited SDK call is two steps, the call and its   *)
(* return (or raise); every other statement group is one step.  The SDK,   *)
(* the network and the file system are the environment: what a call        *)
(* returns, whether it raises, and what a file holds are drawn from small  *)
(* sets.                                                                   *)
(***************************************************************************)
EXTENDS Integers, Sequences, FiniteSets

VARIABLES
    run,              \* number of the current execution of the script
    cfg,              \* the module constants ACCOUNT_ADDRESS and PRIVATE_KEY
    artifact,         \* what CONTRACT_COMPILED_PATH holds when deploy_contract opens it
    diskAtStart,      \* deployment_info.json as this execution found it
    pc,               \* position of the single thread of control
    frame,            \* locals of the running coroutine (deploy_contract / test_contract)
    contract_address, \* __main__'s contract_address (line 162)
    error,            \* the exception caught at line 165, if any
    disk,             \* deployment_info.json
    chain,            \* class hashes whose declare transaction was confirmed
    log,              \* what this execution did: SDK calls, file opens, prints
    exitStatus        \* the process's exit status once it has ended

vars == <<run, cfg, artifact, diskAtStart, pc, frame, contract_address, error, disk, chain, log, exitStatus>>

-----------------------------------------------------------------------------
\* Bounds of the model.
MaxRuns == 2
MaxEvents == 2

\* Sample field elements: 0 (falsy in Python), a one-digit and a two-digit hex value.
Felts == {0, 10, 17}
TxHashes == {10, 17}
ClassHashes == {10, 17}
Supplies == {0, 1}

\* Python's None / a present value.
None == {}
Some(x) == {x}
Get(o) == CHOOSE x \in o : TRUE

\* Lines 16-19: the configuration constants.
PLACEHOLDER_ADDRESS == "YOUR_ACCOUNT_ADDRESS_HERE"
PLACEHOLDER_KEY == "YOUR_PRIVATE_KEY_HERE"
CONTRACT_COMPILED_PATH == "medical_scan_nft_compiled.json"
DEPLOYMENT_INFO_PATH == "deployment_info.json"
NETWORK_NAME == "starknet-sepolia"

Configs == [ACCOUNT_ADDRESS : {PLACEHOLDER_ADDRESS, "0x1"},
            PRIVATE_KEY : {PLACEHOLDER_KEY, "0x2"}]

\* What open(CONTRACT_COMPILED_PATH) + json.load can find.
ArtifactStates == {"missing", "malformed", "noabi", "ok"}

EventLists == UNION {[1..n -> [from_address : Felts]] : n \in 0..MaxEvents}

EmptyFrame == [compiled_contract |-> None, declare_result |-> None,
               deploy_result |-> None, receipt |-> None,
               contract_address |-> None, total_supply |-> None,
               mint_tx |-> None]

AbsentFile == [state |-> "absent", json |-> None]

-----------------------------------------------------------------------------
\* Python's hex() on an int, as a sequence of characters.
HexDigits == <<"0","1","2","3","4","5","6","7","8","9","a","b","c","d","e","f">>

RECURSIVE HexBody(_)
HexBody(n) == IF n < 16 THEN <<HexDigits[n + 1]>>
              ELSE Append(HexBody(n \div 16), HexDigits[(n % 16) + 1])

hex(n) == IF n < 0 THEN <<"-", "0", "x">> \o HexBody(-n)
          ELSE <<"0", "x">> \o HexBody(n)

\* Python truthiness of deploy_contract's result (line 163).
Truthy(v) == v # None /\ Get(v) # 0

\* Line 156 with "and" for "or".
IsPlaceholderBoth(c) == c.ACCOUNT_ADDRESS = PLACEHOLDER_ADDRESS
                        /\ c.PRIVATE_KEY = PLACEHOLDER_KEY

\* Line 156.
IsPlaceholder(c) == c.ACCOUNT_ADDRESS = PLACEHOLDER_ADDRESS
                    \/ c.PRIVATE_KEY = PLACEHOLDER_KEY

\* Lines 86-91 with the declare transaction's hash under transaction_hash.
DeploymentInfoDeclareTx(f) ==
    [contract_address |-> hex(Get(f.contract_address)),
     class_hash |-> hex(Get(f.declare_result).class_hash),
     transaction_hash |-> hex(Get(f.declare_result).transaction_hash),
     network |-> NETWORK_NAME]

\* Lines 86-91.
DeploymentInfo(f) ==
    [contract_address |-> hex(Get(f.contract_address)),
     class_hash |-> hex(Get(f.declare_result).class_hash),
     transaction_hash |-> hex(Get(f.deploy_result).transaction_hash),
     network |-> NETWORK_NAME]

-----------------------------------------------------------------------------
\* Log entries.
Ev(kind, name, arg) == <<kind, name, arg>>
Logged(e) == log' = Append(log, e)
Logged2(e1, e2) == log' = log \o <<e1, e2>>

\* An exception leaves the coroutine: its locals are gone, asyncio.run re-raises
\* it in __main__, where line 165 catches it.
Raise(kind, name, arg) ==
    /\ pc' = "handler"
    /\ frame' = EmptyFrame
    /\ error' = Some(name)
    /\ Logged(Ev(kind, name, arg))
    /\ UNCHANGED <<run, cfg, artifact, diskAtStart, contract_address, disk, chain, exitStatus>>

Init ==
    /\ run = 1
    /\ cfg \in Configs
    /\ artifact \in ArtifactStates
    /\ diskAtStart = AbsentFile
    /\ pc = "main"
    /\ frame = EmptyFrame
    /\ contract_address = None
    /\ error = None
    /\ disk = AbsentFile
    /\ chain = {}
    /\ log = <<>>
    /\ exitStatus = None

\* Lines 152-159.
MainCheckConfig ==
    /\ pc = "main"
    /\ IF IsPlaceholder(cfg)
       THEN /\ Logged2(Ev("print", "banner", None), Ev("print", "config_warning", None))
            /\ exitStatus' = Some(1)
            /\ pc' = "exited"
       ELSE /\ Logged(Ev("print", "banner", None))
            /\ exitStatus' = exitStatus
            /\ pc' = "deploy_init"
    /\ UNCHANGED <<run, cfg, artifact, diskAtStart, frame, contract_address, error, disk, chain>>

\* An awaited SDK call is sent: control is suspended until it returns or raises.
Call(from, to, name, arg) ==
    /\ pc = from
    /\ pc' = to
    /\ Logged(Ev("call", name, arg))
    /\ UNCHANGED <<run, cfg, artifact, diskAtStart, frame, contract_address, error, disk, chain, exitStatus>>

\* Lines 24-38 preceded by an idempotency check: an existing summary is read
\* and nothing is deployed.
DeployInitIdempotent ==
    /\ pc = "deploy_init"
    /\ IF disk.state = "written"
       THEN /\ pc' = "main_branch"
            /\ log' = log \o <<Ev("print", "starting", None),
                               Ev("open_r", DEPLOYMENT_INFO_PATH, None)>>
       ELSE /\ pc' = "deploy_load"
            /\ log' = log \o <<Ev("print", "starting", None), Ev("new", "FullNodeClient", None),
                               Ev("new", "KeyPair", None), Ev("new", "Account", None),
                               Ev("print", "using_account", None)>>
    /\ UNCHANGED <<run, cfg, artifact, diskAtStart, frame, contract_address, error, disk, chain, exitStatus>>

\* Lines 24-38: client, key pair and account are built; two prints.  The
\* constructors compute from the constants alone and send nothing.
DeployInit ==
    /\ pc = "deploy_init"
    /\ pc' = "deploy_load"
    /\ log' = log \o <<Ev("print", "starting", None), Ev("new", "FullNodeClient", None),
                       Ev("new", "KeyPair", None), Ev("new", "Account", None),
                       Ev("print", "using_account", None)>>
    /\ UNCHANGED <<run, cfg, artifact, diskAtStart, frame, contract_address, error, disk, chain, exitStatus>>

\* The missing-artifact path without the except clause: FileNotFoundError
\* propagates like any other exception.
LoadMissingPropagates ==
    /\ pc' = "handler"
    /\ frame' = EmptyFrame
    /\ contract_address' = contract_address
    /\ error' = Some("open")
    /\ log' = log \o <<Ev("open_r", CONTRACT_COMPILED_PATH, None),
                       Ev("raise", "open", None)>>
    /\ UNCHANGED <<run, cfg, artifact, diskAtStart, disk, chain, exitStatus>>

\* Lines 44-47: FileNotFoundError is caught; two prints; deploy_contract
\* returns None to line 162.
LoadMissing ==
    /\ pc' = "main_branch"
    /\ frame' = EmptyFrame
    /\ contract_address' = None
    /\ error' = error
    /\ log' = log \o <<Ev("open_r", CONTRACT_COMPILED_PATH, None),
                       Ev("print", "file_not_found", None),
                       Ev("print", "scarb_hint", None)>>
    /\ UNCHANGED <<run, cfg, artifact, diskAtStart, disk, chain, exitStatus>>

\* Lines 40-49: the artifact is opened and parsed.  FileNotFoundError is the one
\* exception handled here; a parse error propagates.
DeployLoadArtifact ==
    /\ pc = "deploy_load"
    /\ LET a == artifact IN
         \/ /\ a = "missing"
            /\ LoadMissing
         \/ /\ a = "malformed"
            /\ pc' = "handler"
            /\ frame' = EmptyFrame
            /\ contract_address' = contract_address
            /\ error' = Some("json.load")
            /\ log' = log \o <<Ev("open_r", CONTRACT_COMPILED_PATH, None),
                               Ev("raise", "json.load", None)>>
            /\ UNCHANGED <<run, cfg, artifact, diskAtStart, disk, chain, exitStatus>>
         \/ /\ a \in {"noabi", "ok"}
            /\ pc' = "declare"
            /\ frame' = [frame EXCEPT !.compiled_contract = Some(a)]
            /\ contract_address' = contract_address
            /\ error' = error
            /\ log' = log \o <<Ev("open_r", CONTRACT_COMPILED_PATH, None),
                               Ev("print", "loaded", None)>>
            /\ UNCHANGED <<run, cfg, artifact, diskAtStart, disk, chain, exitStatus>>

\* Lines 52-56: the declare transaction is submitted.
DeclareCall ==
    /\ pc = "declare"
    /\ pc' = "declare_await"
    /\ Logged2(Ev("print", "declaring", None), Ev("call", "sign_declare_v2", None))
    /\ UNCHANGED <<run, cfg, artifact, diskAtStart, frame, contract_address, error, disk, chain, exitStatus>>

\* Line 53: sign_declare_v2 returns the declare result, or raises.
DeclareReturn ==
    /\ pc = "declare_await"
    /\ \/ \E t \in TxHashes, c \in ClassHashes :
            /\ pc' = "declare_wait"
            /\ frame' = [frame EXCEPT !.declare_result =
                            Some([transaction_hash |-> t, class_hash |-> c])]
            /\ Logged(Ev("ret", "sign_declare_v2", None))
            /\ UNCHANGED <<run, cfg, artifact, diskAtStart, contract_address, error, disk, chain, exitStatus>>
       \/ Raise("raise", "sign_declare_v2", None)

\* Line 58 without its await: the wait is started and control goes on.
DeclareWaitCallNoAwait ==
    Call("declare_wait", "deploy", "wait_for_tx",
         Some(Get(frame.declare_result).transaction_hash))

\* Line 58: wait for the declare transaction.
DeclareWaitCall ==
    Call("declare_wait", "declare_wait_await", "wait_for_tx",
         Some(Get(frame.declare_result).transaction_hash))

\* Lines 58-59: the declare transaction is confirmed (the class is on the
\* network from here on), or wait_for_tx raises.
DeclareWaitReturn ==
    /\ pc = "declare_wait_await"
    /\ \/ /\ pc' = "deploy"
          /\ chain' = chain \cup {Get(frame.declare_result).class_hash}
          /\ Logged2(Ev("ret", "wait_for_tx", Some(Get(frame.declare_result).transaction_hash)),
                     Ev("print", "declared", None))
          /\ UNCHANGED <<run, cfg, artifact, diskAtStart, frame, contract_address, error, disk, exitStatus>>
       \/ Raise("raise", "wait_for_tx", Some(Get(frame.declare_result).transaction_hash))

\* Lines 61-72: the deploy transaction is submitted.
DeployCall ==
    /\ pc = "deploy"
    /\ pc' = "deploy_await"
    /\ Logged2(Ev("print", "deploying", None),
               Ev("call", "sign_invoke_v1", Some(Get(frame.declare_result).class_hash)))
    /\ UNCHANGED <<run, cfg, artifact, diskAtStart, frame, contract_address, error, disk, chain, exitStatus>>

\* Line 63.
DeployReturn ==
    /\ pc = "deploy_await"
    /\ \/ \E t \in TxHashes :
            /\ pc' = "deploy_wait"
            /\ frame' = [frame EXCEPT !.deploy_result = Some([transaction_hash |-> t])]
            /\ Logged(Ev("ret", "sign_invoke_v1", Some(Get(frame.declare_result).class_hash)))
            /\ UNCHANGED <<run, cfg, artifact, diskAtStart, contract_address, error, disk, chain, exitStatus>>
       \/ Raise("raise", "sign_invoke_v1", Some(Get(frame.declare_result).class_hash))

\* Line 74.
DeployWaitCall ==
    Call("deploy_wait", "deploy_wait_await", "wait_for_tx",
         Some(Get(frame.deploy_result).transaction_hash))

\* Line 74.
DeployWaitReturn ==
    /\ pc = "deploy_wait_await"
    /\ \/ /\ pc' = "receipt"
          /\ Logged(Ev("ret", "wait_for_tx", Some(Get(frame.deploy_result).transaction_hash)))
          /\ UNCHANGED <<run, cfg, artifact, diskAtStart, frame, contract_address, error, disk, chain, exitStatus>>
       \/ Raise("raise", "wait_for_tx", Some(Get(frame.deploy_result).transaction_hash))

\* Line 77.
ReceiptCall ==
    Call("receipt", "receipt_await", "get_transaction_receipt",
         Some(Get(frame.deploy_result).transaction_hash))

\* Line 77.
ReceiptReturn ==
    /\ pc = "receipt_await"
    /\ \/ \E evs \in EventLists :
            /\ pc' = "address"
            /\ frame' = [frame EXCEPT !.receipt = Some([events |-> evs])]
            /\ Logged(Ev("ret", "get_transaction_receipt",
                         Some(Get(frame.deploy_result).transaction_hash)))
            /\ UNCHANGED <<run, cfg, artifact, diskAtStart, contract_address, error, disk, chain, exitStatus>>
       \/ Raise("raise", "get_transaction_receipt",
                Some(Get(frame.deploy_result).transaction_hash))

\* Lines 78-83 with a default address for a receipt without events.
ExtractAddressDefault ==
    /\ pc = "address"
    /\ LET evs == Get(frame.receipt).events IN
       /\ pc' = "save"
       /\ frame' = [frame EXCEPT !.contract_address =
                       IF Len(evs) = 0 THEN Some(0) ELSE Some(evs[1].from_address)]
       /\ Logged(Ev("print", "deployed", None))
       /\ UNCHANGED <<run, cfg, artifact, diskAtStart, contract_address, error, disk, chain, exitStatus>>

\* Lines 78-83: receipt.events[0].from_address (IndexError on an empty list),
\* then four prints.
ExtractAddress ==
    /\ pc = "address"
    /\ LET evs == Get(frame.receipt).events IN
       IF Len(evs) = 0
       THEN Raise("raise", "events[0]", None)
       ELSE /\ pc' = "save"
            /\ frame' = [frame EXCEPT !.contract_address = Some(evs[1].from_address)]
            /\ Logged(Ev("print", "deployed", None))
            /\ UNCHANGED <<run, cfg, artifact, diskAtStart, contract_address, error, disk, chain, exitStatus>>

\* Lines 85-96: the summary is written.  open(..., "w") can fail (the file is
\* left as it was), json.dump can fail after the open truncated the file.
SaveDeploymentInfo ==
    /\ pc = "save"
    /\ \/ /\ pc' = "deploy_return"
          /\ disk' = [state |-> "written", json |-> Some(DeploymentInfo(frame))]
          /\ Logged2(Ev("open_w", DEPLOYMENT_INFO_PATH, None), Ev("print", "saved", None))
          /\ UNCHANGED <<run, cfg, artifact, diskAtStart, frame, contract_address, error, chain, exitStatus>>
       \/ /\ pc' = "handler"
          /\ frame' = EmptyFrame
          /\ error' = Some("open")
          /\ Logged2(Ev("open_w", DEPLOYMENT_INFO_PATH, None), Ev("raise", "open", None))
          /\ UNCHANGED <<run, cfg, artifact, diskAtStart, contract_address, disk, chain, exitStatus>>
       \/ /\ pc' = "handler"
          /\ frame' = EmptyFrame
          /\ error' = Some("json.dump")
          /\ disk' = [state |-> "truncated", json |-> None]
          /\ Logged2(Ev("open_w", DEPLOYMENT_INFO_PATH, None), Ev("raise", "json.dump", None))
          /\ UNCHANGED <<run, cfg, artifact, diskAtStart, contract_address, chain, exitStatus>>

\* Lines 98 and 162: deploy_contract returns the address to __main__.
DeployContractReturn ==
    /\ pc = "deploy_return"
    /\ pc' = "main_branch"
    /\ contract_address' = frame.contract_address
    /\ frame' = EmptyFrame
    /\ UNCHANGED <<run, cfg, artifact, diskAtStart, error, disk, chain, log, exitStatus>>

\* Lines 163-164: the smoke test runs if the result is truthy; otherwise the
\* script is over.
MainBranch ==
    /\ pc = "main_branch"
    /\ IF Truthy(contract_address)
       THEN /\ pc' = "test_init"
            /\ exitStatus' = exitStatus
       ELSE /\ pc' = "done"
            /\ exitStatus' = Some(0)
    /\ UNCHANGED <<run, cfg, artifact, diskAtStart, frame, contract_address, error, disk, chain, log>>

\* Lines 102-111: test_contract builds its own client, key pair and account.
TestInit ==
    /\ pc = "test_init"
    /\ pc' = "test_load"
    /\ log' = log \o <<Ev("print", "testing", None), Ev("new", "FullNodeClient", None),
                       Ev("new", "KeyPair", None), Ev("new", "Account", None)>>
    /\ UNCHANGED <<run, cfg, artifact, diskAtStart, frame, contract_address, error, disk, chain, exitStatus>>

\* Lines 113-121: the artifact is read again (by now the file may hold
\* something else), with no except clause here; the Contract handle needs
\* contract_data["abi"] (KeyError without it).
TestLoadAbi ==
    /\ pc = "test_load"
    /\ \E a \in ArtifactStates :
         \/ /\ a = "missing"
            /\ pc' = "handler"
            /\ frame' = EmptyFrame
            /\ error' = Some("open")
            /\ log' = log \o <<Ev("open_r", CONTRACT_COMPILED_PATH, None),
                               Ev("raise", "open", None)>>
            /\ UNCHANGED <<run, cfg, artifact, diskAtStart, contract_address, disk, chain, exitStatus>>
         \/ /\ a = "malformed"
            /\ pc' = "handler"
            /\ frame' = EmptyFrame
            /\ error' = Some("json.load")
            /\ log' = log \o <<Ev("open_r", CONTRACT_COMPILED_PATH, None),
                               Ev("raise", "json.load", None)>>
            /\ UNCHANGED <<run, cfg, artifact, diskAtStart, contract_address, disk, chain, exitStatus>>
         \/ /\ a = "noabi"
            /\ pc' = "handler"
            /\ frame' = EmptyFrame
            /\ error' = Some("abi")
            /\ log' = log \o <<Ev("open_r", CONTRACT_COMPILED_PATH, None),
                               Ev("raise", "abi", None)>>
            /\ UNCHANGED <<run, cfg, artifact, diskAtStart, contract_address, disk, chain, exitStatus>>
         \/ /\ a = "ok"
            /\ pc' = "supply"
            /\ frame' = [frame EXCEPT !.compiled_contract = Some(a)]
            /\ error' = error
            /\ log' = log \o <<Ev("open_r", CONTRACT_COMPILED_PATH, None),
                               Ev("new", "Contract", contract_address)>>
            /\ UNCHANGED <<run, cfg, artifact, diskAtStart, contract_address, disk, chain, exitStatus>>

\* Line 124.
SupplyCall == Call("supply", "supply_await", "get_total_supply", contract_address)

\* Lines 124-128 with an assertion that the initial supply is 0.
SupplyReturnAsserting ==
    /\ pc = "supply_await"
    /\ \/ \E n \in Supplies :
            /\ IF n = 0
               THEN /\ pc' = "mint"
                    /\ frame' = [frame EXCEPT !.total_supply = Some(n)]
                    /\ error' = error
                    /\ Logged2(Ev("ret", "get_total_supply", contract_address),
                               Ev("print", "total_supply", None))
               ELSE /\ pc' = "handler"
                    /\ frame' = EmptyFrame
                    /\ error' = Some("assert")
                    /\ log' = log \o <<Ev("ret", "get_total_supply", contract_address),
                                       Ev("print", "total_supply", None),
                                       Ev("raise", "assert", None)>>
            /\ UNCHANGED <<run, cfg, artifact, diskAtStart, contract_address, disk, chain, exitStatus>>
       \/ Raise("raise", "get_total_supply", contract_address)

\* Lines 124-128: the value is printed, not examined.
SupplyReturn ==
    /\ pc = "supply_await"
    /\ \/ \E n \in Supplies :
            /\ pc' = "mint"
            /\ frame' = [frame EXCEPT !.total_supply = Some(n)]
            /\ Logged2(Ev("ret", "get_total_supply", contract_address),
                       Ev("print", "total_supply", None))
            /\ UNCHANGED <<run, cfg, artifact, diskAtStart, contract_address, error, disk, chain, exitStatus>>
       \/ Raise("raise", "get_total_supply", contract_address)

\* Lines 128-139.
MintCall ==
    /\ pc = "mint"
    /\ pc' = "mint_await"
    /\ Logged2(Ev("print", "minting", None), Ev("call", "mint_medical_nft", contract_address))
    /\ UNCHANGED <<run, cfg, artifact, diskAtStart, frame, contract_address, error, disk, chain, exitStatus>>

\* Line 130.
MintReturn ==
    /\ pc = "mint_await"
    /\ \/ \E t \in TxHashes :
            /\ pc' = "mint_wait"
            /\ frame' = [frame EXCEPT !.mint_tx = Some([transaction_hash |-> t])]
            /\ Logged(Ev("ret", "mint_medical_nft", contract_address))
            /\ UNCHANGED <<run, cfg, artifact, diskAtStart, contract_address, error, disk, chain, exitStatus>>
       \/ Raise("raise", "mint_medical_nft", contract_address)

\* Line 141.
MintWaitCall ==
    Call("mint_wait", "mint_wait_await", "wait_for_tx",
         Some(Get(frame.mint_tx).transaction_hash))

\* Lines 141-142.
MintWaitReturn ==
    /\ pc = "mint_wait_await"
    /\ \/ /\ pc' = "supply_again"
          /\ Logged2(Ev("ret", "wait_for_tx", Some(Get(frame.mint_tx).transaction_hash)),
                     Ev("print", "minted", None))
          /\ UNCHANGED <<run, cfg, artifact, diskAtStart, frame, contract_address, error, disk, chain, exitStatus>>
       \/ Raise("raise", "wait_for_tx", Some(Get(frame.mint_tx).transaction_hash))

\* Line 145.
SupplyAgainCall ==
    Call("supply_again", "supply_again_await", "get_total_supply", contract_address)

\* Lines 145-146.
SupplyAgainReturn ==
    /\ pc = "supply_again_await"
    /\ \/ \E n \in Supplies :
            /\ pc' = "metadata"
            /\ frame' = [frame EXCEPT !.total_supply = Some(n)]
            /\ Logged2(Ev("ret", "get_total_supply", contract_address),
                       Ev("print", "total_supply_after", None))
            /\ UNCHANGED <<run, cfg, artifact, diskAtStart, contract_address, error, disk, chain, exitStatus>>
       \/ Raise("raise", "get_total_supply", contract_address)

\* Line 149: token_id=1.
MetadataCall ==
    Call("metadata", "metadata_await", "get_token_metadata", Some(1))

\* Lines 149-150: the last statement of test_contract and of the try block.
MetadataReturn ==
    /\ pc = "metadata_await"
    /\ \/ /\ pc' = "done"
          /\ frame' = EmptyFrame
          /\ exitStatus' = Some(0)
          /\ Logged2(Ev("ret", "get_token_metadata", Some(1)),
                     Ev("print", "metadata", None))
          /\ UNCHANGED <<run, cfg, artifact, diskAtStart, contract_address, error, disk, chain>>
       \/ Raise("raise", "get_token_metadata", Some(1))

\* The script is run again (line 152): a new process, with the constants as
\* they are in the file by then; only the file system and the network remain.
StartRun ==
    /\ pc \in {"done", "exited"}
    /\ run < MaxRuns
    /\ run' = run + 1
    /\ cfg' \in Configs
    /\ artifact' \in ArtifactStates
    /\ diskAtStart' = disk
    /\ pc' = "main"
    /\ frame' = EmptyFrame
    /\ contract_address' = None
    /\ error' = None
    /\ log' = <<>>
    /\ exitStatus' = None
    /\ UNCHANGED <<disk, chain>>

\* Lines 165-167 with a retry of the deployment.
HandlerRetry ==
    /\ pc = "handler"
    /\ pc' = "deploy_init"
    /\ Logged2(Ev("print", "deployment_failed", None), Ev("print", "gas_hint", None))
    /\ error' = None
    /\ UNCHANGED <<run, cfg, artifact, diskAtStart, frame, contract_address, disk, chain, exitStatus>>

\* Lines 165-167 followed by exit(1).
HandlerExitOne ==
    /\ pc = "handler"
    /\ pc' = "done"
    /\ Logged2(Ev("print", "deployment_failed", None), Ev("print", "gas_hint", None))
    /\ exitStatus' = Some(1)
    /\ UNCHANGED <<run, cfg, artifact, diskAtStart, frame, contract_address, error, disk, chain>>

\* Lines 165-167: the catch-all prints the error and the hint; the script ends.
Handler ==
    /\ pc = "handler"
    /\ pc' = "done"
    /\ Logged2(Ev("print", "deployment_failed", None), Ev("print", "gas_hint", None))
    /\ exitStatus' = Some(0)
    /\ UNCHANGED <<run, cfg, artifact, diskAtStart, frame, contract_address, error, disk, chain>>

Next ==
    \/ MainCheckConfig
    \/ DeployInit
    \/ DeployLoadArtifact
    \/ DeclareCall
    \/ DeclareReturn
    \/ DeclareWaitCall
    \/ DeclareWaitReturn
    \/ DeployCall
    \/ DeployReturn
    \/ DeployWaitCall
    \/ DeployWaitReturn
    \/ ReceiptCall
    \/ ReceiptReturn
    \/ ExtractAddress
    \/ SaveDeploymentInfo
    \/ DeployContractReturn
    \/ MainBranch
    \/ TestInit
    \/ TestLoadAbi
    \/ SupplyCall
    \/ SupplyReturn
    \/ MintCall
    \/ MintReturn
    \/ MintWaitCall
    \/ MintWaitReturn
    \/ SupplyAgainCall
    \/ SupplyAgainReturn
    \/ MetadataCall
    \/ MetadataReturn
    \/ Handler
    \/ StartRun


Spec == Init /\ [][Next]_vars

-----------------------------------------------------------------------------
\* Reading the log.
SdkNames == {"sign_declare_v2", "wait_for_tx", "sign_invoke_v1",
             "get_transaction_receipt", "get_total_supply",
             "mint_medical_nft", "get_token_metadata"}

IsSdk(e) == e[1] \in {"call", "ret", "raise"} /\ e[2] \in SdkNames
IsCall(e) == e[1] = "call"
SdkEvents == SelectSeq(log, IsSdk)
CallEvents == SelectSeq(log, IsCall)
CallNames == [i \in 1..Len(CallEvents) |-> CallEvents[i][2]]
Has(kind, name) == \E i \in 1..Len(log) : log[i][1] = kind /\ log[i][2] = name
Count(kind, name) == Cardinality({i \in 1..Len(log) : log[i][1] = kind /\ log[i][2] = name})
Printed(name) == Has("print", name)
IsPrefix(s, t) == Len(s) <= Len(t) /\ \A i \in 1..Len(s) : s[i] = t[i]
Outstanding == Cardinality({i \in 1..Len(SdkEvents) : SdkEvents[i][1] = "call"})
               - Cardinality({i \in 1..Len(SdkEvents) : SdkEvents[i][1] # "call"})

\* Calls are made one at a time: in the SDK events of the log every call is
\* directly followed by its own return or raise, and a raise is the last one.
OneAtATime ==
    \A i \in 1..Len(SdkEvents) :
        /\ (i % 2 = 1) => SdkEvents[i][1] = "call"
        /\ (i % 2 = 0) => /\ SdkEvents[i][1] \in {"ret", "raise"}
                          /\ SdkEvents[i][2] = SdkEvents[i - 1][2]
                          /\ SdkEvents[i][3] = SdkEvents[i - 1][3]
        /\ SdkEvents[i][1] = "raise" => i = Len(SdkEvents)

DeployOrder == <<"sign_declare_v2", "wait_for_tx", "sign_invoke_v1", "wait_for_tx",
                 "get_transaction_receipt">>
TestOrder == <<"get_total_supply", "mint_medical_nft", "wait_for_tx",
               "get_total_supply", "get_token_metadata">>

ConfigSet == cfg.ACCOUNT_ADDRESS # PLACEHOLDER_ADDRESS /\ cfg.PRIVATE_KEY # PLACEHOLDER_KEY
BeforeLoad == pc \in {"main", "deploy_init", "deploy_load"}
InDeploy == pc \in {"deploy_init", "deploy_load", "declare", "declare_await",
                    "declare_wait", "declare_wait_await", "deploy", "deploy_await",
                    "deploy_wait", "deploy_wait_await", "receipt", "receipt_await",
                    "address", "save", "deploy_return"}
Ended == pc \in {"done", "exited"}

-----------------------------------------------------------------------------
\* C1: with ACCOUNT_ADDRESS or PRIVATE_KEY (either one) still the placeholder,
\* the run prints the configuration warning and exits with status 1, and its
\* whole activity is prints: no SDK object is built, no SDK call is made, no
\* file is opened.
C1_PlaceholderExitsFirst ==
    (cfg.ACCOUNT_ADDRESS = PLACEHOLDER_ADDRESS \/ cfg.PRIVATE_KEY = PLACEHOLDER_KEY) =>
        /\ pc \in {"main", "exited"}
        /\ \A i \in 1..Len(log) : log[i][1] = "print"
        /\ disk = diskAtStart
        /\ pc = "exited" => /\ exitStatus = Some(1)
                            /\ Printed("config_warning")

C1_Witness ==
    /\ pc = "exited"
    /\ cfg.ACCOUNT_ADDRESS # PLACEHOLDER_ADDRESS
    /\ cfg.PRIVATE_KEY = PLACEHOLDER_KEY

\* C2: with the configuration set and the artifact missing, deploy_contract
\* prints the file-not-found message and returns None; the run makes no SDK
\* call, does not write deployment_info.json and never starts test_contract.
C2_MissingArtifactStops ==
    (ConfigSet /\ artifact = "missing") =>
        /\ \A i \in 1..Len(log) : log[i][1] \notin {"call", "ret", "raise", "open_w"}
        /\ disk = diskAtStart
        /\ ~Printed("testing")
        /\ pc \in {"main", "deploy_init", "deploy_load", "main_branch", "done"}
        /\ ~BeforeLoad => /\ Printed("file_not_found")
                          /\ contract_address = None
                          /\ error = None

C2_Witness ==
    /\ ConfigSet
    /\ artifact = "missing"
    /\ pc = "done"
    /\ Printed("file_not_found")

\* C3: deploy_contract's SDK calls are made one at a time, in the order
\* declare, wait(declare tx), deploy, wait(deploy tx), receipt(deploy tx), and
\* the summary is opened for writing only after the receipt has returned; the
\* deploy is submitted only after the wait on the declare transaction returned.
C3_DeploySequential ==
    /\ OneAtATime
    /\ Outstanding \in {0, 1}
    /\ InDeploy => IsPrefix(CallNames, DeployOrder)
    /\ ~InDeploy => (IsPrefix(CallNames, DeployOrder) \/ IsPrefix(DeployOrder, CallNames))
    /\ \A i \in 1..Len(log) :
          /\ (log[i][1] = "call" /\ log[i][2] = "sign_invoke_v1") =>
                \E j \in 1..(i - 1) : log[j][1] = "ret" /\ log[j][2] = "wait_for_tx"
          /\ log[i][1] = "open_w" =>
                \E j \in 1..(i - 1) : log[j][1] = "ret" /\ log[j][2] = "get_transaction_receipt"
    /\ (InDeploy /\ Len(CallEvents) >= 2) =>
          CallEvents[2][3] = Some(Get(frame.declare_result).transaction_hash)
    /\ (InDeploy /\ Len(CallEvents) >= 4) =>
          CallEvents[4][3] = Some(Get(frame.deploy_result).transaction_hash)
    /\ (InDeploy /\ Len(CallEvents) >= 5) =>
          CallEvents[5][3] = Some(Get(frame.deploy_result).transaction_hash)

C3_Witness ==
    /\ pc = "deploy_return"
    /\ Has("open_w", DEPLOYMENT_INFO_PATH)
    /\ CallNames = DeployOrder
    /\ Get(frame.declare_result).transaction_hash # Get(frame.deploy_result).transaction_hash

\* The value a "0x..." string denotes.
HexDigitValue(c) == CHOOSE d \in 0..15 : HexDigits[d + 1] = c

RECURSIVE HexValue(_)
HexValue(ds) == IF Len(ds) = 0 THEN 0
                ELSE 16 * HexValue(SubSeq(ds, 1, Len(ds) - 1)) + HexDigitValue(ds[Len(ds)])

IsHexOf(str, n) ==
    /\ Len(str) >= 3
    /\ str[1] = "0"
    /\ str[2] = "x"
    /\ HexValue(SubSeq(str, 3, Len(str))) = n

\* C4: when deploy_contract has written deployment_info.json, the file holds
\* exactly the keys contract_address, class_hash, transaction_hash and network:
\* the hex strings of the first receipt event's from_address, of the declare
\* result's class hash and of the deploy (not the declare) transaction's hash,
\* and "starknet-sepolia".
C4_SummaryContents ==
    pc = "deploy_return" =>
        /\ disk.state = "written"
        /\ LET info == Get(disk.json) IN
           /\ DOMAIN info = {"contract_address", "class_hash", "transaction_hash", "network"}
           /\ IsHexOf(info.contract_address, Get(frame.receipt).events[1].from_address)
           /\ IsHexOf(info.class_hash, Get(frame.declare_result).class_hash)
           /\ IsHexOf(info.transaction_hash, Get(frame.deploy_result).transaction_hash)
           /\ info.network = "starknet-sepolia"

C4_Witness ==
    /\ pc = "deploy_return"
    /\ disk.state = "written"
    /\ Get(frame.declare_result).transaction_hash # Get(frame.deploy_result).transaction_hash
    /\ Len(Get(frame.receipt).events) = 2
    /\ Get(frame.receipt).events[1].from_address # Get(frame.receipt).events[2].from_address
    /\ Get(frame.receipt).events[1].from_address >= 16

\* C5: the smoke test starts only after deploy_contract has written the summary
\* and returned an address, and every run in which deploy_contract wrote the
\* summary and returned goes on to the smoke test, whatever the address is.
C5_SmokeTestFollowsDeploy ==
    /\ Printed("testing") => (Printed("saved") /\ contract_address # None)
    /\ (pc = "done" /\ Printed("saved") /\ contract_address # None) => Printed("testing")

-----------------------------------------------------------------------------
NumRaises == Cardinality({i \in 1..Len(log) : log[i][1] = "raise"})

AfterFailure ==
    /\ NumRaises <= 1
    /\ \A i \in 1..Len(log) : log[i][1] = "raise" =>
          /\ \A j \in (i + 1)..Len(log) :
                log[j][1] = "print" /\ log[j][2] \in {"deployment_failed", "gas_hint"}
          /\ error = Some(log[i][2])
    /\ (Len(log) > 0 /\ log[Len(log)][1] = "raise") => pc = "handler"
    /\ error # None => (pc \in {"handler", "done"} /\ frame = EmptyFrame /\ NumRaises = 1)
    /\ (pc = "done" /\ error # None) =>
          /\ Len(log) >= 3
          /\ log[Len(log) - 2][1] = "raise"
          /\ log[Len(log) - 1] = Ev("print", "deployment_failed", None)
          /\ log[Len(log)] = Ev("print", "gas_hint", None)
    /\ Printed("deployment_failed") => error # None

\* C6: a failing step (SDK call, events[0], summary write, the smoke test's
\* artifact read) goes to the one handler, which prints the error and the gas
\* hint; after the failure the run makes no SDK call and opens no file, the
\* step is not retried, and nothing is undone: a declared class stays declared
\* and a written summary stays as written.
C6_FailurePropagates ==
    /\ []AfterFailure
    /\ [][/\ chain \subseteq chain'
          /\ error # None => (disk' = disk /\ chain' = chain)
          /\ Printed("saved") => disk' = disk]_vars

C6_Witness ==
    /\ pc = "done"
    /\ error = Some("get_total_supply")
    /\ Printed("saved")
    /\ disk.state = "written"
    /\ chain # {}

\* C7: a run submits at most one declare and at most one deploy; it never
\* opens deployment_info.json for reading; whatever summary it found, once the
\* artifact is loaded the declare is submitted, once the declare is confirmed
\* the deploy is submitted, and the summary it writes replaces the old one.
C7_NoIdempotencyCheck ==
    /\ Count("call", "sign_declare_v2") <= 1
    /\ Count("call", "sign_invoke_v1") <= 1
    /\ ~Has("open_r", DEPLOYMENT_INFO_PATH)
    /\ (ConfigSet /\ artifact \in {"noabi", "ok"} /\ ~BeforeLoad /\ pc # "declare") =>
          Count("call", "sign_declare_v2") = 1
    /\ (Printed("declared") /\ pc # "deploy") => Count("call", "sign_invoke_v1") = 1
    /\ pc = "deploy_return" =>
          disk = [state |-> "written", json |-> Some(DeploymentInfo(frame))]

C7_Witness ==
    /\ run = 2
    /\ diskAtStart.state = "written"
    /\ pc = "deploy_return"
    /\ disk # diskAtStart

-----------------------------------------------------------------------------
TestCallNames == SubSeq(CallNames, Len(DeployOrder) + 1, Len(CallNames))
InTest == pc \in {"supply", "supply_await", "mint", "mint_await", "mint_wait",
                  "mint_wait_await", "supply_again", "supply_again_await",
                  "metadata", "metadata_await"}

\* The smoke test's calls: one at a time, in the order supply, mint, wait(mint
\* tx), supply, metadata(1); the second supply read and the metadata read come
\* after the mint's confirmation; a value read never stops the run.
TestSequential ==
    /\ OneAtATime
    /\ Printed("testing") => (Len(CallNames) >= Len(DeployOrder)
                               /\ IsPrefix(TestCallNames, TestOrder))
    /\ ~Printed("testing") => Len(CallNames) <= Len(DeployOrder)
    /\ (Count("call", "get_total_supply") = 2 \/ Has("call", "get_token_metadata")) =>
          /\ Printed("minted")
          /\ Count("ret", "wait_for_tx") = 3
    /\ (InTest /\ Len(CallEvents) >= 8) =>
          CallEvents[8][3] = Some(Get(frame.mint_tx).transaction_hash)
    /\ \A i \in 1..Len(log) :
          (log[i][1] = "call" /\ log[i][2] = "get_token_metadata") => log[i][3] = Some(1)
    /\ (Printed("total_supply") /\ ~Has("call", "mint_medical_nft")) => pc = "mint"
    /\ (Printed("total_supply_after") /\ ~Has("call", "get_token_metadata")) => pc = "metadata"

\* C8 as stated: exactly one mint in every smoke-test run.
C8_ExactlyOneMintPerRun ==
    /\ TestSequential
    /\ (Printed("testing") /\ pc = "done") => Count("call", "mint_medical_nft") = 1

\* C8 (amended): the smoke test is sequential in the stated order; a
\* smoke-test run submits at most one mint, and exactly one once its first
\* total-supply read has returned; no value read stops the run.
C8_AtMostOneMint ==
    /\ TestSequential
    /\ Count("call", "mint_medical_nft") <= 1
    /\ (Printed("total_supply") /\ pc # "mint") => Count("call", "mint_medical_nft") = 1

C8_Witness ==
    /\ pc = "metadata_await"
    /\ frame.total_supply = Some(0)
    /\ Count("call", "mint_medical_nft") = 1
    /\ TestCallNames = TestOrder

\* C9: exit status 1 comes from the placeholder check alone; every other run
\* ends with no explicit exit (status 0), a caught failure included.
C9_ExitStatus ==
    /\ exitStatus = Some(1) => (pc = "exited" /\ ~ConfigSet /\ Printed("config_warning"))
    /\ pc = "exited" => exitStatus = Some(1)
    /\ pc = "done" => exitStatus = Some(0)
    /\ ~Ended => exitStatus = None

C9_Witness ==
    /\ pc = "done"
    /\ error # None
    /\ exitStatus = Some(0)

\* C10: the summary is opened for writing at most once per run, and only after
\* the declare and the deploy were confirmed and the receipt was read with at
\* least one event; the file changes in no other way; a run whose class was
\* declared and whose deploy, deploy confirmation, receipt read or events[0]
\* failed writes no summary, and the class stays declared.
C10_SummaryImpliesConfirmed ==
    /\ Count("open_w", DEPLOYMENT_INFO_PATH) <= 1
    /\ Has("open_w", DEPLOYMENT_INFO_PATH) =>
          /\ Printed("declared")
          /\ Count("ret", "wait_for_tx") >= 2
          /\ Has("ret", "get_transaction_receipt")
          /\ Printed("deployed")
    /\ pc \in {"save", "deploy_return"} =>
          /\ Len(Get(frame.receipt).events) >= 1
          /\ Get(frame.declare_result).class_hash \in chain
    /\ disk # diskAtStart => Has("open_w", DEPLOYMENT_INFO_PATH)
    /\ (Printed("declared") /\ ~Printed("deployed") /\ error # None) =>
          /\ ~Has("open_w", DEPLOYMENT_INFO_PATH)
          /\ disk = diskAtStart
          /\ \A i \in 1..Len(log) :
                (log[i][1] = "call" /\ log[i][2] = "sign_invoke_v1") =>
                    (log[i][3] # None /\ log[i][3] \subseteq chain)

C10_Witness ==
    /\ pc = "done"
    /\ Printed("declared")
    /\ error = Some("events[0]")
    /\ chain # {}
    /\ disk.state = "absent"
====
